---- MODULE Spec2Model ----
(***************************************************************************)
(* bukit-dashboard: the authenticated API client (apiFetch with            *)
(* refresh-and-retry, token storage), the onboarding wizards, the data     *)
(* views (dashboard overview, facilities page) and ProtectedRoute.         *)
(*                                                                         *)
(* Tokens are natural numbers; 0 stands for an absent (null) storage key.  *)
(* The server is the environment: every response it may give is drawn      *)
(* nondeterministically, a rejected fetch (network failure) included.      *)
(***************************************************************************)
EXTENDS Integers, Sequences, FiniteSets, TLC

VARIABLES
  \* The API client: localStorage, the apiFetch calls in flight, tokens issued.
  store, calls, issued,
  \* A wizard page: which of the three pages it is, and its React state.
  variant, clientIdFromQuery, currentStep, isSubmitting, clientId, isEditing,
  isLoadingExisting, loadError, businessForm, step1Errors, locations, step2Errors,
  facilities, locationChoices, step3Errors,
  \* The wizard's environment: the handler suspended at an await, the requests
  \* the page has issued, the route, the number of field edits so far, and the
  \* client identifier that the last successful Step 1 submission produced.
  inflight, sent, route, edits, producedId,
  \* The location rows whose create request the server has answered with success.
  succeeded,
  \* A data view (the dashboard overview or the facilities page): which one is
  \* mounted, the signed-in user, its React state, and the runs of its load effect.
  page, user, loading, error, shown, modules, loads,
  \* A ProtectedRoute: what useAuth() gives it, its allowedRoles prop, what it last
  \* rendered and where it last sent the router.
  auth, allowedRoles, rendered, replaced

apiVars == <<store, calls, issued>>

wizardVars ==
  <<variant, clientIdFromQuery, currentStep, isSubmitting, clientId, isEditing,
    isLoadingExisting, loadError, businessForm, step1Errors, locations, step2Errors,
    facilities, locationChoices, step3Errors, inflight, sent, route, edits,
    producedId, succeeded>>

viewVars == <<page, user, loading, error, shown, modules, loads>>

guardVars == <<auth, allowedRoles, rendered, replaced>>

vars == <<apiVars, wizardVars, viewVars, guardVars>>

(***************************************************************************)
(* Bounds of the model.                                                    *)
(***************************************************************************)
\* Concurrent apiFetch calls (DashboardPage.load starts three at once).
NCalls == 2
\* Distinct JSON bodies the server may answer with (0 is a body that is not JSON).
MaxBody == 1
\* Field edits (handleBusinessChange, handleLocationChange) in one wizard session.
MaxEdits == 1
\* Rows of the wizard's locations list.
MaxRows == 2
\* Requests one wizard session issues.
MaxRequests == 3
\* Runs of a view's load effect (the dashboard's runs again when the user changes).
MaxLoads == 2

Calls == 1..NCalls

(***************************************************************************)
(* Storage: part_001 lines 4-32.                                           *)
(***************************************************************************)
NoToken == 0

getAccessToken(s) == s.access

getRefreshToken(s) == s.refresh

setAuthTokens_DropRefresh(s, accessToken, refreshToken) ==
  [access |-> accessToken, refresh |-> refreshToken]

setAuthTokens(s, accessToken, refreshToken) ==
  [access |-> accessToken,
   refresh |-> IF refreshToken # NoToken THEN refreshToken ELSE s.refresh]

clearAuthTokens_AccessOnly(s) == [s EXCEPT !.access = NoToken]

clearAuthTokens(s) == [access |-> NoToken, refresh |-> NoToken]

(***************************************************************************)
(* Requests, headers and responses.                                        *)
(***************************************************************************)
\* An Authorization header value: none, the caller's own, or `Bearer ${token}`.
Absent == <<"absent", 0>>

CallerAuth == <<"caller-supplied", 0>>

Bearer(t) == <<"Bearer", t>>

\* A Content-Type header that is not there.
NoType == "absent"

LoginPath == "/auth/login"

RefreshPath == "/auth/refresh"

LogoutPath == "/auth/logout"

Paths == {LoginPath, RefreshPath, LogoutPath, "/auth/upload", "/bookings"}

BodyKinds == {"json", "FormData"}

JsonType == "application/json"

CallerContentTypes == {NoType, JsonType, "text/plain"}

CallerHeaders == [auth : {Absent, CallerAuth}, ct : CallerContentTypes]

NoCallerHeaders == [auth |-> Absent, ct |-> NoType]

\* part_001 lines 40-46 (and lib/api.ts lines 15-21): the headers object is a copy
\* of the caller's, and a body that is not FormData gets a JSON content type
\* unless the caller's own is truthy.
buildHeaders_AlwaysJson(body, callerHeaders) ==
  [callerHeaders EXCEPT !.ct = IF callerHeaders.ct \in {NoType, ""} THEN JsonType
                                ELSE callerHeaders.ct]

buildHeaders(body, callerHeaders) ==
  IF body # "FormData"
    THEN [callerHeaders EXCEPT !.ct = IF callerHeaders.ct \in {NoType, ""} THEN JsonType
                                       ELSE callerHeaders.ct]
    ELSE callerHeaders

\* part_001 lines 48-55.
attachAuthHeader(headers, s) ==
  IF getAccessToken(s) # NoToken
    THEN [headers EXCEPT !.auth = Bearer(getAccessToken(s))]
    ELSE [headers EXCEPT !.auth = Absent]

\* lib/api.ts lines 23-25: the older client only ever adds the header.
libAttachToken(headers, token) ==
  IF token # NoToken THEN [headers EXCEPT !.auth = Bearer(token)] ELSE headers

Statuses == {200, 204, 401, 500}

Bodies == 0..MaxBody

\* A 204 carries no body.
Responses == {r \in [status : Statuses, body : Bodies] : r.status = 204 => r.body = 0}

NoResponse == [status |-> 0, body |-> 0]

NetworkError == [status |-> -1, body |-> 0]

IsOk(r) == r.status \in {200, 204}

\* What the caller of apiFetch gets: a value, undefined, or a thrown Error.
Outcome(kind, msg, body) == [kind |-> kind, msg |-> msg, body |-> body]

NoOutcome == Outcome("pending", "", 0)

\* part_001 lines 104-113: the thrown Error carries the body's message, or
\* "Request failed" when the body is not JSON.
ErrorOutcome(r) ==
  IF r.body = 0 THEN Outcome("error", "Request failed", 0)
  ELSE Outcome("error", "message", r.body)

\* part_001 lines 115-120: 204 yields undefined, otherwise the parsed body
\* (res.json() rejects when the body is not JSON).
SuccessOutcome(r) ==
  IF r.status = 204 THEN Outcome("undefined", "", 0)
  ELSE IF r.body = 0 THEN Outcome("error", "SyntaxError", 0)
  ELSE Outcome("value", "", r.body)

IdleCall ==
  [pc |-> "idle", impl |-> "none", path |-> "", body |-> "json",
   options |-> NoCallerHeaders, headers |-> NoCallerHeaders, refreshToken |-> NoToken, res |-> NoResponse,
   reqs |-> <<>>, got |-> <<>>, refreshes |-> 0, refreshGot |-> "none",
   refreshData |-> [access |-> NoToken, refresh |-> NoToken],
   outcome |-> NoOutcome]

InitStores ==
  {[access |-> NoToken, refresh |-> NoToken],
   [access |-> 1, refresh |-> NoToken],
   [access |-> 1, refresh |-> 1]}

InitApiClient ==
  /\ store \in InitStores
  /\ calls = [c \in Calls |-> IdleCall]
  /\ issued = 1

(***************************************************************************)
(* apiFetch of part_001, lines 34-121.  A call's record holds the locals   *)
(* of one invocation: pc is the await it is suspended at ("first": line    *)
(* 66, "refresh": lines 77-87, "retry": line 93, "errorBody": line 107).   *)
(* reqs, got, refreshes, refreshGot and refreshData record what went over  *)
(* the wire for the call.                                                  *)
(***************************************************************************)
\* doRequest, lines 57-64: attachAuthHeader, then fetch with the headers object.
doRequest(call, s) ==
  LET h == attachAuthHeader(call.headers, s)
  IN  [call EXCEPT !.headers = h,
                   !.reqs = Append(@, [auth |-> h.auth, ct |-> h.ct])]

\* Lines 104-120, up to the first await in them: a response that is not ok has its
\* body read (line 107) before the Error is thrown; an ok one is returned.
settle(call, r) ==
  IF ~IsOk(r)
    THEN [call EXCEPT !.pc = "errorBody"]
    ELSE [call EXCEPT !.pc = "done", !.outcome = SuccessOutcome(r)]

\* Lines 69-73: the paths on which a 401 starts a refresh.
refreshesOn401_AnyPath(path) == TRUE

refreshesOn401(path) == path # LoginPath /\ path # RefreshPath

\* Lines 34-66: build the headers, send the first request.
ApiFetch(c, path, body, callerHeaders) ==
  /\ calls[c].pc = "idle"
  /\ calls' = [calls EXCEPT ![c] =
        doRequest([IdleCall EXCEPT !.pc = "first", !.impl = "apiFetch",
                                   !.path = path, !.body = body,
                                   !.options = callerHeaders,
                                   !.headers = buildHeaders(body, callerHeaders)],
                  store)]
  /\ UNCHANGED <<store, issued, wizardVars, viewVars, guardVars>>

\* Lines 66-84 and 104: the first response; a 401 with a stored refresh token
\* sends the refresh request.
FirstResponse(c, r) ==
  /\ calls[c].pc = "first"
  /\ calls[c].impl = "apiFetch"
  /\ LET call == [calls[c] EXCEPT !.res = r, !.got = Append(@, r)]
         refreshToken == getRefreshToken(store)
     IN  calls' = [calls EXCEPT ![c] =
           IF r.status = 401 /\ refreshesOn401(call.path)
             THEN IF refreshToken # NoToken
                    THEN [call EXCEPT !.pc = "refresh", !.refreshToken = refreshToken,
                                      !.refreshes = @ + 1]
                    ELSE settle(call, r)
             ELSE settle(call, r)]
  /\ UNCHANGED <<store, issued, wizardVars, viewVars, guardVars>>

\* Line 66: the first fetch rejects (network failure); apiFetch rejects with it.
FirstRejects(c) ==
  /\ calls[c].pc = "first"
  /\ calls[c].impl = "apiFetch"
  /\ calls' = [calls EXCEPT ![c] =
        [@ EXCEPT !.pc = "done", !.got = Append(@, NetworkError),
                  !.outcome = Outcome("error", "NetworkError", 0)]]
  /\ UNCHANGED <<store, issued, wizardVars, viewVars, guardVars>>

\* Lines 86-93: the refresh response is ok and carries an access_token (and a
\* refresh_token or none): the tokens are stored and the request is sent again.
RefreshOk(c, withRefreshToken) ==
  /\ calls[c].pc = "refresh"
  /\ LET data == [access |-> issued + 1,
                  refresh |-> IF withRefreshToken THEN issued + 1 ELSE NoToken]
         s == setAuthTokens(store, data.access, data.refresh)
     IN  /\ store' = s
         /\ calls' = [calls EXCEPT ![c] =
               doRequest([@ EXCEPT !.pc = "retry", !.refreshGot = "ok",
                                   !.refreshData = data], s)]
  /\ issued' = issued + 1
  /\ UNCHANGED <<wizardVars, viewVars, guardVars>>

\* Lines 86-88 and 94: the refresh response is ok and has no access_token.
RefreshOkNoAccessToken(c) ==
  /\ calls[c].pc = "refresh"
  /\ calls' = [calls EXCEPT ![c] =
        settle([@ EXCEPT !.refreshGot = "ok-no-access-token"], @.res)]
  /\ UNCHANGED <<store, issued, wizardVars, viewVars, guardVars>>

\* Lines 95-97: the refresh response is not ok.
RefreshNotOk(c) ==
  /\ calls[c].pc = "refresh"
  /\ store' = clearAuthTokens(store)
  /\ calls' = [calls EXCEPT ![c] = settle([@ EXCEPT !.refreshGot = "not-ok"], @.res)]
  /\ UNCHANGED <<issued, wizardVars, viewVars, guardVars>>

\* Lines 98-100: the refresh fetch, or the parse of its body, throws.
RefreshRejects(c) ==
  /\ calls[c].pc = "refresh"
  /\ store' = clearAuthTokens(store)
  /\ calls' = [calls EXCEPT ![c] = settle([@ EXCEPT !.refreshGot = "threw"], @.res)]
  /\ UNCHANGED <<issued, wizardVars, viewVars, guardVars>>

\* Line 93, then 104: the response to the request sent again.
RetryResponse(c, r) ==
  /\ calls[c].pc = "retry"
  /\ calls' = [calls EXCEPT ![c] =
        settle([@ EXCEPT !.res = r, !.got = Append(@, r)], r)]
  /\ UNCHANGED <<store, issued, wizardVars, viewVars, guardVars>>

\* Line 93 is inside the try of line 76: when the fetch sent again rejects, the
\* catch of lines 98-100 clears the tokens and res is still the first response.
RetryRejects(c) ==
  /\ calls[c].pc = "retry"
  /\ store' = clearAuthTokens(store)
  /\ calls' = [calls EXCEPT ![c] =
        settle([@ EXCEPT !.got = Append(@, NetworkError)], @.res)]
  /\ UNCHANGED <<issued, wizardVars, viewVars, guardVars>>

\* Lines 105-112: the body of the failed response has been read; throw.
ErrorBody(c) ==
  /\ calls[c].pc = "errorBody"
  /\ calls' = [calls EXCEPT ![c] =
        [@ EXCEPT !.pc = "done", !.outcome = ErrorOutcome(calls[c].res)]]
  /\ UNCHANGED <<store, issued, wizardVars, viewVars, guardVars>>

(***************************************************************************)
(* apiFetch of src/lib/api.ts, lines 9-50: the older client, no refresh.   *)
(***************************************************************************)
LibApiFetch(c, path, body, callerHeaders) ==
  /\ calls[c].pc = "idle"
  /\ LET h == libAttachToken(buildHeaders(body, callerHeaders), getAccessToken(store))
     IN  calls' = [calls EXCEPT ![c] =
           [IdleCall EXCEPT !.pc = "first", !.impl = "lib", !.path = path,
                            !.body = body, !.options = callerHeaders, !.headers = h,
                            !.reqs = <<[auth |-> h.auth, ct |-> h.ct]>>]]
  /\ UNCHANGED <<store, issued, wizardVars, viewVars, guardVars>>

\* lib/api.ts lines 27-49 (lines 33-42 are the text of part_001 lines 104-113).
LibResponse(c, r) ==
  /\ calls[c].pc = "first"
  /\ calls[c].impl = "lib"
  /\ calls' = [calls EXCEPT ![c] =
        settle([@ EXCEPT !.res = r, !.got = Append(@, r)], r)]
  /\ UNCHANGED <<store, issued, wizardVars, viewVars, guardVars>>

LibRejects(c) ==
  /\ calls[c].pc = "first"
  /\ calls[c].impl = "lib"
  /\ calls' = [calls EXCEPT ![c] =
        [@ EXCEPT !.pc = "done", !.got = Append(@, NetworkError),
                  !.outcome = Outcome("error", "NetworkError", 0)]]
  /\ UNCHANGED <<store, issued, wizardVars, viewVars, guardVars>>

(***************************************************************************)
(* The typed resource operations (part_001 lines 129-233 and on) call      *)
(* apiFetch with a fixed path, a JSON body or none, and no headers of      *)
(* their own; uploadImageApi sends FormData.                               *)
(***************************************************************************)
UploadPath == "/auth/upload"

bodyOf(path) == IF path = UploadPath THEN "FormData" ELSE "json"

\* What a call of part_001's apiFetch does after its first request is out.
Continue(c) ==
  \/ \E r \in Responses : FirstResponse(c, r)
  \/ FirstRejects(c)
  \/ \E w \in BOOLEAN : RefreshOk(c, w)
  \/ RefreshOkNoAccessToken(c)
  \/ RefreshNotOk(c)
  \/ RefreshRejects(c)
  \/ \E r \in Responses : RetryResponse(c, r)
  \/ RetryRejects(c)
  \/ ErrorBody(c)

\* Concurrent calls of the typed operations, under any server behaviour.
Next ==
  \E c \in Calls :
    \/ \E path \in Paths : ApiFetch(c, path, bodyOf(path), NoCallerHeaders)
    \/ Continue(c)

\* One call of either client with any caller-supplied headers and body kind,
\* beside concurrent getBookingsApi calls.
HeaderPaths == {LoginPath, "/bookings"}

NextHeaders ==
  \/ \E path \in HeaderPaths, body \in BodyKinds, h \in CallerHeaders :
       ApiFetch(1, path, body, h)
  \/ \E path \in HeaderPaths, body \in BodyKinds, h \in CallerHeaders :
       LibApiFetch(1, path, body, h)
  \/ \E r \in Responses : LibResponse(1, r)
  \/ LibRejects(1)
  \/ \E c \in Calls \ {1} : ApiFetch(c, "/bookings", "json", NoCallerHeaders)
  \/ \E c \in Calls : Continue(c)

(***************************************************************************)
(* The onboarding wizards of part_000: the edit-capable DashboardSetupPage *)
(* (lines 309-720, "setup-edit"), the create-only DashboardSetupPage       *)
(* (lines 1190-1438, "setup-create") and the 3-step ClientOnboardingPage   *)
(* (lines 1825-2222, "onboarding").                                        *)
(*                                                                         *)
(* A string a handler inspects is a sequence of characters; a number is a  *)
(* record that is undefined, NaN or an integer.  Form fields that are only *)
(* copied into a payload (legalName, address, state, ...) are left out.    *)
(***************************************************************************)
Variants == {"setup-edit", "setup-create", "onboarding"}

Min(S) == CHOOSE x \in S : \A y \in S : x <= y

Max(S) == CHOOSE x \in S : \A y \in S : x >= y

\* String.prototype.trim.
trim(str) ==
  LET kept == {i \in 1..Len(str) : str[i] # " "}
  IN  IF kept = {} THEN <<>> ELSE SubSeq(str, Min(kept), Max(kept))

\* /^[^\s@]+@[^\s@]+\.[^\s@]+$/.test(str), part_000 lines 515 and 1307.
emailShape(str) ==
  \E at \in 1..Len(str), dot \in 1..Len(str) :
    /\ str[at] = "@" /\ str[dot] = "."
    /\ 1 < at /\ at + 1 < dot /\ dot < Len(str)
    /\ \A k \in 1..Len(str) : k # at => str[k] \notin {"@", " "}

Undefined == [k |-> "undefined", v |-> 0]

NaN == [k |-> "NaN", v |-> 0]

Num(n) == [k |-> "number", v |-> n]

Digits == <<"0", "1", "2", "3", "4", "5", "6", "7", "8", "9">>

IsDigit(ch) == \E d \in 1..10 : Digits[d] = ch

DigitValue(ch) == (CHOOSE d \in 1..10 : Digits[d] = ch) - 1

RECURSIVE Decimal(_)
Decimal(ds) ==
  IF ds = <<>> THEN 0
  ELSE 10 * Decimal(SubSeq(ds, 1, Len(ds) - 1)) + DigitValue(ds[Len(ds)])

\* Number(str) for the integer numerals; anything else that is not blank is NaN.
Number(str) ==
  LET t == trim(str)
      neg == t # <<>> /\ t[1] = "-"
      ds == IF neg THEN Tail(t) ELSE t
  IN  IF t = <<>> THEN Num(0)
      ELSE IF ds # <<>> /\ \A i \in 1..Len(ds) : IsDigit(ds[i])
        THEN Num(IF neg THEN 0 - Decimal(ds) ELSE Decimal(ds))
      ELSE NaN

\* x < lo || x > hi, which is false of NaN.
outside(x, lo, hi) == x.k = "number" /\ (x.v < lo \/ x.v > hi)

\* isNaN(x) || x < lo || x > hi.
nanOrOutside(x, lo, hi) == x.k = "NaN" \/ outside(x, lo, hi)

\* The fields of businessForm a page has and inspects.
FormFields(v) ==
  {"companyName", "contactName", "email", "phone", "city", "country"}
    \cup (IF v = "setup-edit" THEN {"latitude", "longitude"} ELSE {})
    \cup (IF v # "setup-create" THEN {"adminPassword"} ELSE {})

AllFormFields == FormFields("setup-edit")

EmptyForm == [f \in AllFormFields |-> <<>>]

initialErrorState == [global |-> "", fields |-> {}]

\* errors.fields[key] = message, when the condition holds.
fieldError(cond, key, message) == IF cond THEN {<<key, message>>} ELSE {}

required(form, field, message) ==
  fieldError(trim(form[field]) = <<>>, field, message)

\* The StepErrorState a validator leaves in the page's state (lines 547-554).
validated(fieldErrors, summary) ==
  IF fieldErrors # {} THEN [global |-> summary, fields |-> fieldErrors]
  ELSE initialErrorState

Step1Summary == "Please fill in all required fields."

\* validateStep1 of the edit-capable page, lines 504-555.
validateStep1_SetupEdit(form, editing) ==
  validated(
    required(form, "companyName", "Company name is required")
    \cup required(form, "contactName", "Contact person is required")
    \cup required(form, "email", "Email is required")
    \cup fieldError(trim(form.email) # <<>> /\ ~emailShape(form.email),
                    "email", "Please enter a valid email address")
    \cup required(form, "phone", "Phone is required")
    \cup required(form, "city", "City is required")
    \cup required(form, "country", "Country is required")
    \cup fieldError(form.latitude # <<>> /\ trim(form.latitude) # <<>>
                      /\ nanOrOutside(Number(form.latitude), -90, 90),
                    "latitude", "Latitude must be between -90 and 90")
    \cup fieldError(form.longitude # <<>> /\ trim(form.longitude) # <<>>
                      /\ nanOrOutside(Number(form.longitude), -180, 180),
                    "longitude", "Longitude must be between -180 and 180")
    \cup fieldError(~editing /\ trim(form.adminPassword) = <<>>,
                    "adminPassword", "Admin password is required")
    \cup fieldError(~editing /\ trim(form.adminPassword) # <<>>
                      /\ Len(trim(form.adminPassword)) < 6,
                    "adminPassword", "Password must be at least 6 characters"),
    Step1Summary)

\* validateStep1 of the create-only page, lines 1296-1328: no password field.
validateStep1_SetupCreate(form, editing) ==
  validated(
    required(form, "companyName", "Company name is required")
    \cup required(form, "contactName", "Contact person is required")
    \cup required(form, "email", "Email is required")
    \cup fieldError(trim(form.email) # <<>> /\ ~emailShape(form.email),
                    "email", "Please enter a valid email address")
    \cup required(form, "phone", "Phone is required")
    \cup required(form, "city", "City is required")
    \cup required(form, "country", "Country is required"),
    Step1Summary)

\* validateStep1 of the 3-step page, lines 1999-2034: the email is only required.
validateStep1_Onboarding(form, editing) ==
  validated(
    required(form, "companyName", "Company name is required")
    \cup required(form, "contactName", "Contact person is required")
    \cup required(form, "email", "Email is required")
    \cup required(form, "phone", "Phone is required")
    \cup required(form, "city", "City is required")
    \cup required(form, "country", "Country is required")
    \cup fieldError(trim(form.adminPassword) = <<>>,
                    "adminPassword", "Admin password is required")
    \cup fieldError(trim(form.adminPassword) # <<>>
                      /\ Len(trim(form.adminPassword)) < 6,
                    "adminPassword", "Password must be at least 6 characters"),
    Step1Summary)

validateStep1(v, form, editing) ==
  CASE v = "setup-edit" -> validateStep1_SetupEdit(form, editing)
    [] v = "setup-create" -> validateStep1_SetupCreate(form, editing)
    [] OTHER -> validateStep1_Onboarding(form, editing)

(***************************************************************************)
(* Location rows (LocationPayload, part_001 lines 459-472): id is "" for a  *)
(* row the server has not given an identifier.                             *)
(***************************************************************************)
EmptyRow ==
  [id |-> "", name |-> <<>>, city |-> <<>>, country |-> <<>>,
   latitude |-> Undefined, longitude |-> Undefined]

rowKeys(index, errs) == {<<<<index, e[1]>>, e[2]>> : e \in errs}

\* The checks of one row, lines 564-580; the two range checks are the edit-capable
\* page's only.
rowErrors_Ranges(loc) ==
  fieldError(trim(loc.name) = <<>>, "name", "Location name is required")
  \cup fieldError(trim(loc.city) = <<>>, "city", "City is required")
  \cup fieldError(trim(loc.country) = <<>>, "country", "Country is required")
  \cup fieldError(loc.latitude.k # "undefined" /\ outside(loc.latitude, -90, 90),
                  "latitude", "Latitude must be between -90 and 90")
  \cup fieldError(loc.longitude.k # "undefined" /\ outside(loc.longitude, -180, 180),
                  "longitude", "Longitude must be between -180 and 180")

\* Lines 1337-1347 and 2043-2053.
rowErrors_NoRanges(loc) ==
  fieldError(trim(loc.name) = <<>>, "name", "Location name is required")
  \cup fieldError(trim(loc.city) = <<>>, "city", "City is required")
  \cup fieldError(trim(loc.country) = <<>>, "country", "Country is required")

rowErrors(v, loc) ==
  IF v = "setup-edit" THEN rowErrors_Ranges(loc) ELSE rowErrors_NoRanges(loc)

\* validateStep2, lines 557-592, 1330-1359 and 2036-2065.
validateStep2(v, locs) ==
  LET fieldErrors ==
        UNION {rowKeys(i - 1, rowErrors(v, locs[i])) : i \in 1..Len(locs)}
  IN  IF Len(locs) = 0
        THEN [global |-> "Add at least one location to continue.",
              fields |-> fieldErrors]
        ELSE validated(fieldErrors,
                       "Please complete the required fields for locations.")

(***************************************************************************)
(* The field handlers.  A missing identifier or message is the empty       *)
(* string, which the code treats like null (both are falsy).               *)
(***************************************************************************)
\* handleBusinessChange, lines 434-443, 1237-1246, 1899-1908: the error state after.
clearedError(errors, key) ==
  [global |-> "", fields |-> {e \in errors.fields : e[1] # key}]

\* handleLocationChange of the edit-capable page, lines 455-471.
coordinate_SetupEdit(field, value) ==
  IF value = <<>> THEN Undefined
  ELSE LET num == Number(value)
       IN  IF num.k = "NaN" THEN Undefined
           ELSE IF field = "latitude" /\ outside(num, -90, 90) THEN Undefined
           ELSE IF field = "longitude" /\ outside(num, -180, 180) THEN Undefined
           ELSE num

\* handleLocationChange of the other two pages, lines 1258-1263 and 1920-1925.
coordinate_Plain(field, value) ==
  IF value = <<>> THEN Undefined ELSE Number(value)

locationValue(v, field, value) ==
  IF field \in {"latitude", "longitude"}
    THEN IF v = "setup-edit" THEN coordinate_SetupEdit(field, value)
         ELSE coordinate_Plain(field, value)
    ELSE value

\* What the user may type into a field.
ShortPassword == <<"s", "e", "c", "r", "e">>

PaddedPassword == <<" ">> \o ShortPassword

GoodPassword == ShortPassword \o <<"t">>

GoodEmail == <<"j", "@", "a", ".", "c">>

BusinessInputs(field) ==
  CASE field = "companyName" -> {<<" ">>, <<"A">>}
    [] field = "email" -> {<<"n", "o">>, <<"j", "@", "a">>, GoodEmail}
    [] field = "adminPassword" -> {ShortPassword, PaddedPassword, GoodPassword}
    [] field = "latitude" -> {<<"9", "5">>, <<"4", "5">>}
    [] field = "longitude" -> {<<"1", "8", "1">>}
    [] OTHER -> {<<>>}

LocationFields == {"name", "city", "country", "latitude", "longitude"}

LocationInputs(field) ==
  CASE field = "latitude" -> {<<"9", "5">>, <<"4", "5">>, <<"-", "9", "1">>}
    [] field = "longitude" -> {<<"1", "8", "1">>}
    [] OTHER -> {<<>>, <<"A">>}

\* A form that passes the page's Step 1 gate, and a row that passes Step 2's.
ValidForm(v) ==
  [f \in AllFormFields |->
     IF f \in {"latitude", "longitude"} THEN <<>>
     ELSE IF f = "adminPassword" THEN (IF v = "setup-create" THEN <<>> ELSE GoodPassword)
     ELSE IF f = "email" THEN GoodEmail
     ELSE <<"A">>]

ValidRow == [EmptyRow EXCEPT !.name = <<"A">>, !.city = <<"A">>, !.country = <<"A">>]

EmptyFacility == [name |-> <<>>, type |-> "other", location_id |-> ""]

Idle == [op |-> "none", clientId |-> "", rows |-> <<>>, created |-> <<>>]

\* The body of a request the page sends: the client payload of Step 1 (lines
\* 600-651, 1366-1380, 2072-2096) or the row of Step 2 with its client_id.
clientPayload(form, withPassword) ==
  [company_name |-> form.companyName, contact_name |-> form.contactName,
   email |-> form.email, phone |-> form.phone, city |-> form.city,
   country |-> form.country,
   password |-> IF withPassword THEN form.adminPassword ELSE <<>>,
   latitude |-> IF form.latitude # <<>> THEN Number(form.latitude) ELSE Undefined,
   longitude |-> IF form.longitude # <<>> THEN Number(form.longitude) ELSE Undefined]

NoPayload == clientPayload(EmptyForm, FALSE)

Request(kind, client, payload, row) ==
  [kind |-> kind, client_id |-> client, payload |-> payload, row |-> row]

locationPayload_NoClient(loc, id) == Request("create-location", "", NoPayload, loc)

\* { ...loc, client_id: clientId }, lines 703-706, 1420-1423, 2170-2173.
locationPayload(loc, id) == Request("create-location", id, NoPayload, loc)

ExistingClient == "client-7"

\* The state after the page has mounted (lines 314-361, 1193-1231, 1828-1884, and
\* the effect of lines 364-372 when the URL names a client); the form and the
\* first row are as constructed, or as the user has filled them in.
InitWizardPage ==
  /\ variant \in Variants
  /\ clientIdFromQuery \in (IF variant = "setup-edit" THEN {"", ExistingClient} ELSE {""})
  /\ isEditing = (clientIdFromQuery # "")
  /\ isLoadingExisting = (clientIdFromQuery # "")
  /\ loadError = ""
  /\ currentStep = 1
  /\ isSubmitting = FALSE
  /\ clientId = ""
  /\ businessForm \in {EmptyForm, ValidForm(variant)}
  /\ step1Errors = initialErrorState
  /\ locations \in {<<EmptyRow>>, <<ValidRow>>}
  /\ step2Errors = initialErrorState
  /\ facilities = <<EmptyFacility>>
  /\ locationChoices = <<>>
  /\ inflight = Idle
  /\ sent = <<>>
  /\ route = "wizard"
  /\ edits = 0
  /\ step3Errors = initialErrorState
  /\ producedId = ""
  /\ succeeded = {}

\* No wizard page is mounted.
NoWizardPage ==
  /\ variant = "none"
  /\ clientIdFromQuery = ""
  /\ isEditing = FALSE
  /\ isLoadingExisting = FALSE
  /\ loadError = ""
  /\ currentStep = 1
  /\ isSubmitting = FALSE
  /\ clientId = ""
  /\ businessForm = EmptyForm
  /\ step1Errors = initialErrorState
  /\ locations = <<EmptyRow>>
  /\ step2Errors = initialErrorState
  /\ facilities = <<EmptyFacility>>
  /\ locationChoices = <<>>
  /\ inflight = Idle
  /\ sent = <<>>
  /\ route = "elsewhere"
  /\ edits = 0
  /\ step3Errors = initialErrorState
  /\ producedId = ""
  /\ succeeded = {}

\* Nobody is signed in (useAuth gives user null).
NoUser == [present |-> FALSE, id |-> "", role |-> "", listed |-> FALSE, list |-> <<>>]

\* No data view is mounted.
NoView ==
  /\ page = "none"
  /\ user = NoUser
  /\ loading = FALSE
  /\ error = ""
  /\ shown = {}
  /\ modules = {}
  /\ loads = <<>>

\* What useAuth() gives while the session is being restored.
AuthLoading == [loading |-> TRUE, isAuthenticated |-> FALSE, user |-> "", hasRole |-> FALSE]

\* No ProtectedRoute is mounted.
NoGuard ==
  /\ auth = AuthLoading
  /\ allowedRoles = "absent"
  /\ rendered = "nothing"
  /\ replaced = ""

NoApiCalls ==
  /\ store = [access |-> 1, refresh |-> 1]
  /\ calls = [c \in Calls |-> IdleCall]
  /\ issued = 1

InitWizard == InitWizardPage /\ NoApiCalls /\ NoView /\ NoGuard

HandleBusinessChange(field, value) ==
  /\ route = "wizard" /\ currentStep = 1 /\ edits < MaxEdits
  /\ field \in FormFields(variant)
  /\ businessForm' = [businessForm EXCEPT ![field] = value]
  /\ step1Errors' = clearedError(step1Errors, field)
  /\ edits' = edits + 1
  /\ UNCHANGED <<apiVars, guardVars, viewVars, succeeded, step3Errors, producedId, variant, clientIdFromQuery, currentStep, isSubmitting,
                 clientId, isEditing, isLoadingExisting, loadError, locations,
                 step2Errors, facilities, locationChoices, inflight, sent, route>>

\* Lines 445-480, 1248-1272, 1910-1934; index counts from 0 as in the code.
HandleLocationChange(index, field, value) ==
  /\ route = "wizard" /\ currentStep = 2 /\ edits < MaxEdits
  /\ index + 1 \in 1..Len(locations)
  /\ locations' = [locations EXCEPT ![index + 1] =
        [@ EXCEPT ![field] = locationValue(variant, field, value)]]
  /\ step2Errors' = clearedError(step2Errors, <<index, field>>)
  /\ edits' = edits + 1
  /\ UNCHANGED <<apiVars, guardVars, viewVars, succeeded, step3Errors, producedId, variant, clientIdFromQuery, currentStep, isSubmitting,
                 clientId, isEditing, isLoadingExisting, loadError, businessForm,
                 step1Errors, facilities, locationChoices, inflight, sent, route>>

AddLocation ==
  /\ route = "wizard" /\ currentStep = 2 /\ ~isSubmitting
  /\ Len(locations) < MaxRows
  /\ locations' = Append(locations, EmptyRow)
  /\ UNCHANGED <<apiVars, guardVars, viewVars, succeeded, step3Errors, producedId, variant, clientIdFromQuery, currentStep, isSubmitting,
                 clientId, isEditing, isLoadingExisting, loadError, businessForm,
                 step1Errors, step2Errors, facilities, locationChoices, inflight,
                 sent, route, edits>>

\* prev.filter((_, i) => i !== index).
without(list, index) ==
  IF index + 1 \in 1..Len(list)
    THEN [i \in 1..(Len(list) - 1) |-> IF i < index + 1 THEN list[i] ELSE list[i + 1]]
    ELSE list

\* removeLocation: lines 498-502 and 1290-1294 keep a single row; lines 1952-1954 of
\* the 3-step page filter whatever the length.
removeLocation(v, locs, index) ==
  IF v = "onboarding" \/ Len(locs) > 1 THEN without(locs, index) ELSE locs

\* removeFacility, lines 1995-1997.
removeFacility(facs, index) == without(facs, index)

removeOffered_Always(list) == TRUE

\* The Remove button of a row is rendered only while the list has more than one
\* row: lines 1008, 1652, 2447 (locations) and 2611 (facilities).
removeOffered(list) == Len(list) > 1

RemoveLocation(index) ==
  /\ route = "wizard" /\ currentStep = 2
  /\ removeOffered(locations)
  /\ index + 1 \in 1..Len(locations)
  /\ locations' = removeLocation(variant, locations, index)
  /\ UNCHANGED <<apiVars, guardVars, viewVars, succeeded, step3Errors, producedId, variant, clientIdFromQuery, currentStep, isSubmitting,
                 clientId, isEditing, isLoadingExisting, loadError, businessForm,
                 step1Errors, step2Errors, facilities, locationChoices, inflight,
                 sent, route, edits>>

GoToStep_ResetsRows(step) ==
  /\ route = "wizard" /\ ~isSubmitting
  /\ step = currentStep - 1 /\ step >= 1
  /\ currentStep' = step
  /\ locations' = <<EmptyRow>>
  /\ UNCHANGED <<apiVars, guardVars, viewVars, succeeded, step3Errors, producedId, variant, clientIdFromQuery, isSubmitting, clientId,
                 isEditing, isLoadingExisting, loadError, businessForm, step1Errors,
                 step2Errors, facilities, locationChoices, inflight,
                 sent, route, edits>>

\* The Back buttons: goToStep(1) on Step 2, goToStep(2) on Step 3.
GoToStep(step) ==
  /\ route = "wizard" /\ ~isSubmitting
  /\ step = currentStep - 1 /\ step >= 1
  /\ currentStep' = step
  /\ UNCHANGED <<apiVars, guardVars, viewVars, succeeded, step3Errors, producedId, variant, clientIdFromQuery, isSubmitting, clientId,
                 isEditing, isLoadingExisting, loadError, businessForm, step1Errors,
                 locations, step2Errors, facilities, locationChoices, inflight,
                 sent, route, edits>>

\* handleSubmitStep1 up to its await: lines 594-653, 1361-1382, 2098-2129.
HandleSubmitStep1 ==
  /\ route = "wizard" /\ currentStep = 1 /\ ~isSubmitting
  /\ LET errors == validateStep1(variant, businessForm, isEditing)
         updating == variant = "setup-edit" /\ isEditing /\ clientIdFromQuery # ""
     IN  IF errors # initialErrorState
           THEN /\ step1Errors' = errors
                /\ UNCHANGED <<isSubmitting, inflight, sent>>
           ELSE /\ Len(sent) < MaxRequests
                /\ step1Errors' = initialErrorState
                /\ isSubmitting' = TRUE
                /\ sent' = Append(sent,
                     IF updating
                       THEN Request("update-client", clientIdFromQuery,
                                    clientPayload(businessForm, FALSE), EmptyRow)
                       ELSE Request("register-client", "",
                                    clientPayload(businessForm, variant # "setup-create"),
                                    EmptyRow))
                /\ inflight' = [Idle EXCEPT
                                  !.op = IF updating THEN "update" ELSE "register"]
  /\ UNCHANGED <<apiVars, guardVars, viewVars, succeeded, step3Errors, producedId, variant, clientIdFromQuery, currentStep, clientId, isEditing,
                 isLoadingExisting, loadError, businessForm, locations, step2Errors,
                 facilities, locationChoices, route, edits>>

\* What POST /auth/register-client may answer with: each identifier is there or
\* not, and the second client registered gets other identifiers than the first.
registrations == Len(SelectSeq(sent, LAMBDA r : r.kind = "register-client"))

registered(n) ==
  {r \in [user : {"", IF n = 1 THEN "user-1" ELSE "user-2"},
          client : {"", IF n = 1 THEN "client-1" ELSE "client-2"},
          client_id : {"", IF n = 1 THEN "cid-1" ELSE "cid-2"},
          id : {"", IF n = 1 THEN "id-1" ELSE "id-2"}] :
     /\ r.user # "" => r.client # ""
     /\ r.client # "" => r.client_id # ""
     /\ r.client_id # "" => r.id # ""}

RegisterResults == registered(1) \cup registered(2)

\* Lines 655-659 and 2132-2136; lines 1384-1387 do not look at user.id.
createdClientId(v, result) ==
  IF v # "setup-create" /\ result.user # "" THEN result.user
  ELSE IF result.client # "" THEN result.client
  ELSE IF result.client_id # "" THEN result.client_id
  ELSE result.id

step1Fallback(v, op) ==
  IF v = "onboarding" THEN "Failed to create client"
  ELSE IF op = "update" THEN "Failed to update business"
  ELSE "Failed to create business"

\* The request of Step 1 resolves: lines 638-640, 653-665, 1382-1394, 2129-2143,
\* the catch when no identifier is found, and the finally.
Step1Succeeds(result) ==
  /\ inflight.op \in {"update", "register"}
  /\ result \in registered(registrations)
  /\ LET id == IF inflight.op = "update" THEN clientIdFromQuery
               ELSE createdClientId(variant, result)
     IN  IF id = ""
           THEN /\ step1Errors' = [global |-> "Client ID missing from response",
                                   fields |-> {}]
                /\ UNCHANGED <<clientId, currentStep, producedId>>
           ELSE /\ clientId' = id
                /\ currentStep' = 2
                /\ producedId' = id
                /\ UNCHANGED step1Errors
  /\ isSubmitting' = FALSE
  /\ inflight' = Idle
  /\ UNCHANGED <<apiVars, guardVars, viewVars, succeeded, step3Errors, variant, clientIdFromQuery, isEditing, isLoadingExisting,
                 loadError, businessForm, locations, step2Errors, facilities,
                 locationChoices, sent, route, edits>>

ServerMessages == {"", "Conflict"}

failure_NoFallback(message, fallback) == [global |-> message, fields |-> {}]

\* { global: err.message || fallback, fields: {} }, lines 667-672, 713-716,
\* 2217-2220.
failure(message, fallback) ==
  [global |-> IF message # "" THEN message ELSE fallback, fields |-> {}]

\* The request of Step 1 rejects: the catch and finally of lines 666-681,
\* 1395-1403, 2144-2152.
Step1Fails(message) ==
  /\ inflight.op \in {"update", "register"}
  /\ step1Errors' = failure(message, step1Fallback(variant, inflight.op))
  /\ isSubmitting' = FALSE
  /\ inflight' = Idle
  /\ UNCHANGED <<apiVars, guardVars, viewVars, succeeded, step3Errors, producedId, variant, clientIdFromQuery, currentStep, clientId, isEditing,
                 isLoadingExisting, loadError, businessForm, locations, step2Errors,
                 facilities, locationChoices, sent, route, edits>>

\* The rows handleSubmitStep2 posts: the edit-capable page skips a row that has
\* an id (line 701); the other two post every row.
rowsToCreate_All(v, locs) == locs

rowsToCreate(v, locs) ==
  SelectSeq(locs, LAMBDA loc : v # "setup-edit" \/ loc.id = "")

\* After the loop of handleSubmitStep2: router.push (lines 711, 1428), or lines
\* 2183-2195 of the 3-step page; then the finally.
finishStep2(created) ==
  /\ isSubmitting' = FALSE
  /\ inflight' = Idle
  /\ IF variant = "onboarding"
       THEN /\ currentStep' = 3
            /\ locationChoices' = IF created # <<>> THEN created ELSE locationChoices
            /\ facilities' =
                 IF created # <<>>
                   THEN [i \in DOMAIN facilities |->
                           IF facilities[i].location_id = ""
                             THEN [facilities[i] EXCEPT !.location_id = created[1].id]
                             ELSE facilities[i]]
                   ELSE facilities
            /\ UNCHANGED route
       ELSE /\ route' = "/dashboard"
            /\ UNCHANGED <<currentStep, locationChoices, facilities>>

noClientMessage(v) ==
  IF v = "onboarding"
    THEN "Client has not been created yet. Please complete Step 1 first."
    ELSE "Business has not been created yet. Please complete Step 1 first."

\* handleSubmitStep2 up to its first await: lines 684-708, 1405-1425, 2154-2175.
HandleSubmitStep2 ==
  /\ route = "wizard" /\ currentStep = 2 /\ ~isSubmitting
  /\ LET errors == validateStep2(variant, locations)
         rows == rowsToCreate(variant, locations)
     IN  IF clientId = ""
           THEN /\ step2Errors' = [global |-> noClientMessage(variant), fields |-> {}]
                /\ currentStep' = 1
                /\ UNCHANGED <<isSubmitting, inflight, sent, route, facilities,
                               locationChoices>>
         ELSE IF errors # initialErrorState
           THEN /\ step2Errors' = errors
                /\ UNCHANGED <<currentStep, isSubmitting, inflight, sent, route,
                               facilities, locationChoices>>
         ELSE /\ Len(sent) + Len(rows) <= MaxRequests
              /\ step2Errors' = initialErrorState
              /\ IF rows = <<>>
                   THEN finishStep2(<<>>) /\ UNCHANGED sent
                   ELSE /\ isSubmitting' = TRUE
                        /\ sent' = Append(sent, locationPayload(Head(rows), clientId))
                        /\ inflight' = [op |-> "locations", clientId |-> clientId,
                                        rows |-> Tail(rows), created |-> <<>>]
                        /\ UNCHANGED <<currentStep, route, facilities, locationChoices>>
  /\ UNCHANGED <<apiVars, guardVars, viewVars, succeeded, step3Errors, producedId, variant, clientIdFromQuery, clientId, isEditing,
                 isLoadingExisting, loadError, businessForm, step1Errors, locations,
                 edits>>

\* The identifier the server gives the n-th location it creates for a submission.
newLocationId(n) == IF n = 1 THEN "loc-1" ELSE "loc-2"

\* createLocationApi resolves (lines 708, 1425, 2175-2179): the loop posts the next
\* row, or ends.
Step2LocationCreated ==
  /\ inflight.op = "locations"
  /\ LET created == Append(inflight.created,
                           [id |-> newLocationId(Len(inflight.created) + 1),
                            name |-> sent[Len(sent)].row.name])
     IN  IF inflight.rows # <<>>
           THEN /\ sent' = Append(sent, locationPayload(Head(inflight.rows),
                                                       inflight.clientId))
                /\ inflight' = [inflight EXCEPT !.rows = Tail(@), !.created = created]
                /\ UNCHANGED <<isSubmitting, currentStep, route, facilities,
                               locationChoices>>
           ELSE finishStep2(created) /\ UNCHANGED sent
  /\ succeeded' = succeeded \cup {sent[Len(sent)].row}
  /\ UNCHANGED <<apiVars, guardVars, viewVars, step3Errors, producedId, variant, clientIdFromQuery, clientId, isEditing,
                 isLoadingExisting, loadError, businessForm, step1Errors, locations,
                 step2Errors, edits>>

step2Fallback(v) ==
  IF v = "setup-edit" THEN "Failed to save locations" ELSE "Failed to create locations"

\* createLocationApi rejects: the catch and finally of lines 712-719, 1429-1437,
\* 2195-2202.
Step2LocationFails(message) ==
  /\ inflight.op = "locations"
  /\ step2Errors' = failure(message, step2Fallback(variant))
  /\ isSubmitting' = FALSE
  /\ inflight' = Idle
  /\ UNCHANGED <<apiVars, guardVars, viewVars, succeeded, step3Errors, producedId, variant, clientIdFromQuery, currentStep, clientId, isEditing,
                 isLoadingExisting, loadError, businessForm, step1Errors, locations,
                 facilities, locationChoices, sent, route, edits>>

RECURSIVE Numeral(_)
Numeral(n) ==
  IF n < 10 THEN <<Digits[n + 1]>>
  ELSE Numeral(n \div 10) \o <<Digits[(n % 10) + 1]>>

\* String(x) of an integer; line 397 turns null into "".
String(x) ==
  IF x.k # "number" THEN <<>>
  ELSE IF x.v < 0 THEN <<"-">> \o Numeral(0 - x.v) ELSE Numeral(x.v)

\* What GET /clients/:id and GET /locations?client_id= may hold for the client.
\* The answer names the client by its id; an answer of another shape has none.
ExistingClients ==
  {[id |-> id, company_name |-> <<"A">>, contact_name |-> <<"A">>,
    email |-> GoodEmail, phone |-> <<"A">>, city |-> <<"A">>, country |-> <<"A">>,
    latitude |-> lat, longitude |-> Undefined] :
     id \in {ExistingClient, ""}, lat \in {Undefined, Num(45)}}

\* setBusinessForm of loadExisting, lines 380-399.
prefilledForm(prev, client) ==
  [prev EXCEPT
     !.companyName = client.company_name, !.contactName = client.contact_name,
     !.email = client.email, !.phone = client.phone, !.city = client.city,
     !.country = client.country, !.latitude = String(client.latitude),
     !.longitude = String(client.longitude), !.adminPassword = <<>>]

ExistingLocations ==
  {<<>>, <<[ValidRow EXCEPT !.id = "loc-9"]>>,
   <<[ValidRow EXCEPT !.id = "loc-9", !.latitude = Num(95)]>>}

\* loadExisting, lines 373-422: both reads resolve.
LoadExistingSucceeds(client, clientLocations) ==
  /\ isLoadingExisting
  /\ clientId' = client.id
  /\ businessForm' = prefilledForm(businessForm, client)
  /\ locations' = IF Len(clientLocations) > 0 THEN clientLocations ELSE locations
  /\ isLoadingExisting' = FALSE
  /\ UNCHANGED <<apiVars, guardVars, viewVars, succeeded, step3Errors, producedId, variant, clientIdFromQuery, currentStep, isSubmitting,
                 isEditing, loadError, step1Errors, step2Errors, facilities,
                 locationChoices, inflight, sent, route, edits>>

\* loadExisting, lines 423-427: one of the reads rejects.
LoadExistingFails(message) ==
  /\ isLoadingExisting
  /\ loadError' = IF message # "" THEN message
                  ELSE "Failed to load existing business data"
  /\ isLoadingExisting' = FALSE
  /\ UNCHANGED <<apiVars, guardVars, viewVars, succeeded, step3Errors, producedId, variant, clientIdFromQuery, currentStep, isSubmitting,
                 clientId, isEditing, businessForm, step1Errors, locations,
                 step2Errors, facilities, locationChoices, inflight, sent, route,
                 edits>>

(***************************************************************************)
(* Step 3 of the 3-step page: facilities (lines 1956-1997, 2067-2096,      *)
(* 2205-2222).  capacity and status are only copied into the payload.      *)
(***************************************************************************)
FacilityFields == {"name", "type", "location_id"}

\* What the name input and the two selects (lines 2640-2684) can give.
FacilityInputs(field) ==
  CASE field = "name" -> {<<>>, <<" ">>, <<"A">>}
    [] field = "type" -> {"vr"}
    [] OTHER -> {""} \cup {locationChoices[i].id : i \in 1..Len(locationChoices)}

\* handleFacilityChange, lines 1956-1980.
HandleFacilityChange(index, field, value) ==
  /\ route = "wizard" /\ currentStep = 3 /\ edits < MaxEdits
  /\ index + 1 \in 1..Len(facilities)
  /\ value \in FacilityInputs(field)
  /\ facilities' = [facilities EXCEPT ![index + 1] = [@ EXCEPT ![field] = value]]
  /\ step3Errors' = clearedError(step3Errors, <<index, field>>)
  /\ edits' = edits + 1
  /\ UNCHANGED <<apiVars, guardVars, viewVars, succeeded, producedId, variant, clientIdFromQuery, currentStep,
                 isSubmitting, clientId, isEditing, isLoadingExisting, loadError,
                 businessForm, step1Errors, locations, step2Errors, locationChoices,
                 inflight, sent, route>>

\* addFacility, lines 1982-1993.
AddFacility ==
  /\ route = "wizard" /\ currentStep = 3 /\ ~isSubmitting
  /\ Len(facilities) < MaxRows
  /\ facilities' = Append(facilities, EmptyFacility)
  /\ UNCHANGED <<apiVars, guardVars, viewVars, succeeded, step3Errors, producedId, variant, clientIdFromQuery,
                 currentStep, isSubmitting, clientId, isEditing, isLoadingExisting,
                 loadError, businessForm, step1Errors, locations, step2Errors,
                 locationChoices, inflight, sent, route, edits>>

RemoveFacility(index) ==
  /\ route = "wizard" /\ currentStep = 3
  /\ removeOffered(facilities)
  /\ index + 1 \in 1..Len(facilities)
  /\ facilities' = removeFacility(facilities, index)
  /\ UNCHANGED <<apiVars, guardVars, viewVars, succeeded, step3Errors, producedId, variant, clientIdFromQuery,
                 currentStep, isSubmitting, clientId, isEditing, isLoadingExisting,
                 loadError, businessForm, step1Errors, locations, step2Errors,
                 locationChoices, inflight, sent, route, edits>>

facilityErrors_NoLocation(fac) ==
  fieldError(trim(fac.name) = <<>>, "name", "Facility name is required")
  \cup fieldError(fac.type = "", "type", "Type is required")

\* The checks of one facility row, lines 2074-2084.
facilityErrors(fac) ==
  fieldError(trim(fac.name) = <<>>, "name", "Facility name is required")
  \cup fieldError(fac.type = "", "type", "Type is required")
  \cup fieldError(fac.location_id = "", "location_id", "Location is required")

\* validateStep3, lines 2067-2096.
validateStep3(facs) ==
  LET fieldErrors ==
        UNION {rowKeys(i - 1, facilityErrors(facs[i])) : i \in 1..Len(facs)}
  IN  IF Len(facs) = 0
        THEN [global |-> "Add at least one facility to continue.",
              fields |-> fieldErrors]
        ELSE validated(fieldErrors,
                       "Please complete the required fields for facilities.")

facilityRequests == Len(SelectSeq(sent, LAMBDA r : r.kind = "create-facility"))

\* createFacilityApi(fac), line 2211.
facilityPayload(fac) == Request("create-facility", "", NoPayload, fac)

\* handleSubmitStep3 up to its first await: lines 2205-2211.
HandleSubmitStep3 ==
  /\ route = "wizard" /\ currentStep = 3 /\ ~isSubmitting
  /\ LET errors == validateStep3(facilities)
     IN  IF errors # initialErrorState
           THEN /\ step3Errors' = errors
                /\ UNCHANGED <<isSubmitting, inflight, sent>>
           ELSE /\ facilityRequests + Len(facilities) <= MaxRequests
                /\ step3Errors' = initialErrorState
                /\ isSubmitting' = TRUE
                /\ sent' = Append(sent, facilityPayload(Head(facilities)))
                /\ inflight' = [Idle EXCEPT !.op = "facilities",
                                            !.rows = Tail(facilities)]
  /\ UNCHANGED <<apiVars, guardVars, viewVars, succeeded, producedId, variant, clientIdFromQuery, currentStep,
                 clientId, isEditing, isLoadingExisting, loadError, businessForm,
                 step1Errors, locations, step2Errors, facilities, locationChoices,
                 route, edits>>

\* createFacilityApi resolves (line 2211): the loop posts the next row, or ends with
\* router.push (line 2215).  There is no finally: isSubmitting stays true.
Step3FacilityCreated ==
  /\ inflight.op = "facilities"
  /\ IF inflight.rows # <<>>
       THEN /\ sent' = Append(sent, facilityPayload(Head(inflight.rows)))
            /\ inflight' = [inflight EXCEPT !.rows = Tail(@)]
            /\ UNCHANGED route
       ELSE /\ route' = "/dashboard"
            /\ inflight' = Idle
            /\ UNCHANGED sent
  /\ UNCHANGED <<apiVars, guardVars, viewVars, succeeded, step3Errors, producedId, variant, clientIdFromQuery,
                 currentStep, isSubmitting, clientId, isEditing, isLoadingExisting,
                 loadError, businessForm, step1Errors, locations, step2Errors,
                 facilities, locationChoices, edits>>

\* createFacilityApi rejects: the catch of lines 2216-2221.
Step3FacilityFails(message) ==
  /\ inflight.op = "facilities"
  /\ step3Errors' = failure(message, "Failed to create facilities")
  /\ inflight' = Idle
  /\ UNCHANGED <<apiVars, guardVars, viewVars, succeeded, producedId, variant, clientIdFromQuery, currentStep,
                 isSubmitting, clientId, isEditing, isLoadingExisting, loadError,
                 businessForm, step1Errors, locations, step2Errors, facilities,
                 locationChoices, sent, route, edits>>

\* The handlers of Step 3 and the server's answers to its requests.
Step3 ==
  \/ \E index \in 0..(MaxRows - 1), value \in {<<>>, <<" ">>, <<"A">>} :
       HandleFacilityChange(index, "name", value)
  \/ \E index \in 0..(MaxRows - 1), field \in FacilityFields \ {"name"} :
       \E value \in {"", "vr", "loc-1", "loc-2"} :
         HandleFacilityChange(index, field, value)
  \/ AddFacility
  \/ \E index \in 0..(MaxRows - 1) : RemoveFacility(index)
  \/ HandleSubmitStep3
  \/ Step3FacilityCreated
  \/ \E message \in ServerMessages : Step3FacilityFails(message)

\* One session of a wizard page: the user's actions and the server's answers.
NextWizard ==
  \/ \E field \in AllFormFields : \E value \in BusinessInputs(field) :
       HandleBusinessChange(field, value)
  \/ \E index \in 0..(MaxRows - 1), field \in LocationFields :
       \E value \in LocationInputs(field) : HandleLocationChange(index, field, value)
  \/ AddLocation
  \/ \E index \in 0..(MaxRows - 1) : RemoveLocation(index)
  \/ \E step \in 1..2 : GoToStep(step)
  \/ HandleSubmitStep1
  \/ \E result \in RegisterResults : Step1Succeeds(result)
  \/ \E message \in ServerMessages : Step1Fails(message)
  \/ HandleSubmitStep2
  \/ Step2LocationCreated
  \/ \E message \in ServerMessages : Step2LocationFails(message)
  \/ \E client \in ExistingClients, clientLocations \in ExistingLocations :
       LoadExistingSucceeds(client, clientLocations)
  \/ \E message \in ServerMessages : LoadExistingFails(message)

\* The user leaves the wizard page, which unmounts it: Cancel (lines 959-964,
\* disabled while submitting) goes to the dashboard, the browser's navigation goes
\* anywhere at any time.  No handler of the page holds an unmount flag.
LeaveWizard(to) ==
  /\ route = "wizard"
  /\ to = "/dashboard" => ~isSubmitting
  /\ route' = to
  /\ UNCHANGED <<apiVars, guardVars, viewVars, succeeded, variant, clientIdFromQuery, currentStep,
                 isSubmitting, clientId, isEditing, isLoadingExisting, loadError,
                 businessForm, step1Errors, locations, step2Errors, facilities,
                 locationChoices, step3Errors, inflight, sent, edits, producedId>>

\* A wizard page with its form and its row filled in, about to be submitted or
\* left.
InitLeave ==
  /\ InitWizardPage
  /\ businessForm = ValidForm(variant)
  /\ locations = <<ValidRow>>
  /\ NoApiCalls
  /\ NoView
  /\ NoGuard

\* A session in which the user submits, navigates and leaves; the server answers.
NextLeave ==
  \/ \E step \in 1..2 : GoToStep(step)
  \/ HandleSubmitStep1
  \/ \E result \in RegisterResults : Step1Succeeds(result)
  \/ \E message \in ServerMessages : Step1Fails(message)
  \/ HandleSubmitStep2
  \/ Step2LocationCreated
  \/ \E message \in ServerMessages : Step2LocationFails(message)
  \/ \E client \in ExistingClients, clientLocations \in ExistingLocations :
       LoadExistingSucceeds(client, clientLocations)
  \/ \E message \in ServerMessages : LoadExistingFails(message)
  \/ \E to \in {"/dashboard", "elsewhere"} : LeaveWizard(to)

\* A row the server holds, and a second row the user has filled in.
ServerRow == [ValidRow EXCEPT !.id = "loc-9"]

ValidRowB == [ValidRow EXCEPT !.name = <<"B">>]

EditedLocations ==
  {<<ServerRow>>, <<ServerRow, ValidRow>>, <<ValidRowB, ServerRow>>,
   <<ValidRow, ValidRowB>>, <<ServerRow, EmptyRow>>}

\* The edit-capable page opened with ?clientId=..., once loadExisting has resolved
\* (lines 373-427) and the user has added rows to the list it filled in.
InitWizardEdit ==
  /\ variant = "setup-edit"
  /\ clientIdFromQuery = ExistingClient
  /\ isEditing = TRUE
  /\ isLoadingExisting = FALSE
  /\ loadError = ""
  /\ currentStep = 1
  /\ isSubmitting = FALSE
  /\ clientId = ExistingClient
  /\ \E client \in ExistingClients :
       client.id # "" /\ businessForm = prefilledForm(EmptyForm, client)
  /\ step1Errors = initialErrorState
  /\ locations \in EditedLocations
  /\ step2Errors = initialErrorState
  /\ facilities = <<EmptyFacility>>
  /\ locationChoices = <<>>
  /\ inflight = Idle
  /\ sent = <<>>
  /\ route = "wizard"
  /\ edits = 0
  /\ step3Errors = initialErrorState
  /\ producedId = ""
  /\ succeeded = {}
  /\ NoApiCalls
  /\ NoView
  /\ NoGuard

\* The session of a page that is not loading: the user's actions and the server's
\* answers to the submissions.
NextWizardEdit ==
  \/ \E field \in AllFormFields : \E value \in BusinessInputs(field) :
       HandleBusinessChange(field, value)
  \/ \E index \in 0..(MaxRows - 1), field \in LocationFields :
       \E value \in LocationInputs(field) : HandleLocationChange(index, field, value)
  \/ AddLocation
  \/ \E index \in 0..(MaxRows - 1) : RemoveLocation(index)
  \/ \E step \in 1..2 : GoToStep(step)
  \/ HandleSubmitStep1
  \/ \E result \in RegisterResults : Step1Succeeds(result)
  \/ \E message \in ServerMessages : Step1Fails(message)
  \/ HandleSubmitStep2
  \/ Step2LocationCreated
  \/ \E message \in ServerMessages : Step2LocationFails(message)

\* Facility rows as Step 2 leaves the first one (lines 2183-2192) and as the user
\* has filled them in.
PrefilledFacility == [EmptyFacility EXCEPT !.location_id = "loc-1"]

FacilityA == [PrefilledFacility EXCEPT !.name = <<"A">>]

FacilityB == [PrefilledFacility EXCEPT !.name = <<"B">>, !.type = "vr"]

FilledFacilities ==
  {<<PrefilledFacility>>, <<FacilityA>>, <<FacilityA, FacilityB>>,
   <<FacilityB, EmptyFacility>>}

\* The 3-step page as it arrives on Step 3: Step 1 registered the client, Step 2
\* posted the one location (lines 2098-2203); the facility rows are as Step 2 left
\* them, or as the user has filled them in.
InitFacilities ==
  /\ variant = "onboarding"
  /\ clientIdFromQuery = ""
  /\ isEditing = FALSE
  /\ isLoadingExisting = FALSE
  /\ loadError = ""
  /\ currentStep = 3
  /\ isSubmitting = FALSE
  /\ clientId = "user-1"
  /\ producedId = "user-1"
  /\ succeeded = {ValidRow}
  /\ businessForm = ValidForm("onboarding")
  /\ step1Errors = initialErrorState
  /\ locations = <<ValidRow>>
  /\ step2Errors = initialErrorState
  /\ facilities \in FilledFacilities
  /\ locationChoices = <<[id |-> "loc-1", name |-> <<"A">>]>>
  /\ step3Errors = initialErrorState
  /\ inflight = Idle
  /\ sent = <<Request("register-client", "",
                      clientPayload(ValidForm("onboarding"), TRUE), EmptyRow),
              locationPayload(ValidRow, "user-1")>>
  /\ route = "wizard"
  /\ edits = 0
  /\ NoApiCalls
  /\ NoView
  /\ NoGuard

NextFacilities == NextWizardEdit \/ Step3

(***************************************************************************)
(* The data views: DashboardPage (src/app/dashboard/page.tsx) and          *)
(* FacilitiesPage (src/app/dashboard/facilities/page.tsx).  A request is   *)
(* an apiFetch call seen from the view: it fulfils with data or rejects    *)
(* with an Error that carries the message.  error "" is null.              *)
(***************************************************************************)
Roles == {"admin", "client", "user"}

\* user.modules as /auth/profile may deliver it: undefined or null (not listed),
\* empty, or a list whose entries may be falsy ("").
ModuleLists == {<<>>, <<"bookings">>, <<"", "analytics">>, <<"">>}

Users ==
  {NoUser}
  \cup {[present |-> TRUE, id |-> "u-1", role |-> role, listed |-> FALSE, list |-> <<>>] :
          role \in Roles}
  \cup {[present |-> TRUE, id |-> "u-1", role |-> "client", listed |-> TRUE, list |-> list] :
          list \in ModuleLists}
  \cup {[present |-> TRUE, id |-> "u-1", role |-> "admin", listed |-> TRUE,
         list |-> <<"bookings">>]}

roleModules_ClientSeesAnalytics(role) ==
  IF role \in {"admin", "client"}
    THEN {"dashboard-overview", "analytics", "bookings", "gaming"}
    ELSE {"dashboard-overview"}

\* The role-based defaults of the modules memo, page.tsx lines 92-111.
roleModules(role) ==
  CASE role = "admin" -> {"dashboard-overview", "analytics", "bookings", "gaming"}
    [] role = "client" -> {"dashboard-overview", "bookings", "gaming"}
    [] OTHER -> {"dashboard-overview"}

\* The modules memo, page.tsx lines 87-115: filter(Boolean) drops the falsy
\* entries of the list.
modulesMemo(u) ==
  IF ~u.present \/ ~u.listed \/ Len(u.list) = 0
    THEN IF ~u.present THEN {} ELSE roleModules(u.role)
    ELSE {u.list[i] : i \in {j \in 1..Len(u.list) : u.list[j] # ""}}

Pending == [status |-> "pending", value |-> "", message |-> ""]

\* The requests one run of the load effect starts: page.tsx lines 52-57 (the third
\* is Promise.resolve(null) unless the user is an admin), facilities/page.tsx
\* lines 65-68.
requestsOf(view, u) ==
  IF view = "dashboard"
    THEN <<Pending, Pending,
           IF u.present /\ u.role = "admin" THEN Pending
           ELSE [status |-> "fulfilled", value |-> "null", message |-> ""]>>
    ELSE <<Pending, Pending>>

\* One run of the effect, suspended at its await; first is the request whose
\* rejection came first, 0 when none has.
newLoad(view, u) ==
  [view |-> view, isMounted |-> TRUE, pc |-> "awaiting",
   requests |-> requestsOf(view, u), first |-> 0]

\* A view mounts: useState defaults (page.tsx lines 38-42, facilities/page.tsx lines
\* 48-51), the memo, and the first run of the effect up to its await.
InitViewPage ==
  /\ page \in {"dashboard", "facilities"}
  /\ user \in Users
  /\ loading = TRUE
  /\ error = ""
  /\ shown = {}
  /\ modules = (IF page = "dashboard" THEN modulesMemo(user) ELSE {})
  /\ loads = <<newLoad(page, user)>>

InitViews == InitViewPage /\ NoApiCalls /\ NoWizardPage /\ NoGuard

\* The auth context delivers another user: the effect's cleanup (page.tsx lines
\* 82-84), the memo again, and the next run of load up to its await (lines 48-57).
UserChanges(u) ==
  /\ page = "dashboard" /\ u # user
  /\ Len(loads) < MaxLoads
  /\ user' = u
  /\ modules' = modulesMemo(u)
  /\ loading' = TRUE
  /\ error' = ""
  /\ loads' = Append([i \in 1..Len(loads) |-> [loads[i] EXCEPT !.isMounted = FALSE]],
                     newLoad("dashboard", u))
  /\ UNCHANGED <<apiVars, wizardVars, guardVars, page, shown>>

\* apiFetch resolves.
RequestFulfils(i, r) ==
  /\ i \in 1..Len(loads) /\ r \in 1..Len(loads[i].requests)
  /\ loads[i].requests[r].status = "pending"
  /\ loads' = [loads EXCEPT ![i].requests[r] =
                 [status |-> "fulfilled", value |-> "data", message |-> ""]]
  /\ UNCHANGED <<apiVars, wizardVars, guardVars, page, user, loading, error, shown, modules>>

\* apiFetch throws an Error with the message.
RequestRejects(i, r, message) ==
  /\ i \in 1..Len(loads) /\ r \in 1..Len(loads[i].requests)
  /\ loads[i].requests[r].status = "pending"
  /\ loads' = [loads EXCEPT ![i].requests[r] =
                 [status |-> "rejected", value |-> "", message |-> message],
                            ![i].first = IF @ = 0 THEN r ELSE @]
  /\ UNCHANGED <<apiVars, wizardVars, guardVars, page, user, loading, error, shown, modules>>

Settled(load) ==
  \A r \in 1..Len(load.requests) : load.requests[r].status # "pending"

DataNames == <<"bookings", "gaming", "stats">>

\* What load stores from the settled results, page.tsx lines 61-69.
dashboardData(requests) ==
  {DataNames[r] : r \in {q \in 1..3 : /\ requests[q].status = "fulfilled"
                                      /\ q = 3 => requests[q].value # "null"}}

\* DashboardPage.load after Promise.allSettled, page.tsx lines 59-78.  allSettled
\* never rejects, so the catch of lines 70-72 is not entered.
DashboardLoadSettles(i) ==
  /\ i \in 1..Len(loads)
  /\ loads[i].view = "dashboard" /\ loads[i].pc = "awaiting"
  /\ Settled(loads[i])
  /\ loads' = [loads EXCEPT ![i].pc = "done"]
  /\ IF loads[i].isMounted
       THEN /\ shown' = shown \cup dashboardData(loads[i].requests)
            /\ loading' = FALSE
       ELSE UNCHANGED <<shown, loading>>
  /\ UNCHANGED <<apiVars, wizardVars, guardVars, page, user, error, modules>>

\* FacilitiesPage.loadData after Promise.all fulfils, facilities/page.tsx lines
\* 70-73 and 78-82.
FacilitiesLoadSucceeds(i) ==
  /\ i \in 1..Len(loads)
  /\ loads[i].view = "facilities" /\ loads[i].pc = "awaiting"
  /\ \A r \in 1..Len(loads[i].requests) : loads[i].requests[r].status = "fulfilled"
  /\ loads' = [loads EXCEPT ![i].pc = "done"]
  /\ IF loads[i].isMounted
       THEN /\ shown' = {"facilities", "locations"}
            /\ loading' = FALSE
       ELSE UNCHANGED <<shown, loading>>
  /\ UNCHANGED <<apiVars, wizardVars, guardVars, page, user, error, modules>>

\* err.message || fallback, facilities/page.tsx line 76.
loadErrorOf(message, fallback) == IF message # "" THEN message ELSE fallback

\* FacilitiesPage.loadData after Promise.all rejects with the first rejection,
\* facilities/page.tsx lines 74-82.
FacilitiesLoadFails(i) ==
  /\ i \in 1..Len(loads)
  /\ loads[i].view = "facilities" /\ loads[i].pc = "awaiting"
  /\ loads[i].first # 0
  /\ loads' = [loads EXCEPT ![i].pc = "done"]
  /\ IF loads[i].isMounted
       THEN /\ error' = loadErrorOf(loads[i].requests[loads[i].first].message,
                                    "Failed to load facilities")
            /\ loading' = FALSE
       ELSE UNCHANGED <<error, loading>>
  /\ UNCHANGED <<apiVars, wizardVars, guardVars, page, user, shown, modules>>

\* The view unmounts: the cleanup of the effect, page.tsx lines 82-84 and
\* facilities/page.tsx lines 86-88.
Unmount ==
  /\ page # "none"
  /\ page' = "none"
  /\ loads' = [i \in 1..Len(loads) |-> [loads[i] EXCEPT !.isMounted = FALSE]]
  /\ UNCHANGED <<apiVars, wizardVars, guardVars, user, loading, error, shown, modules>>

NextViews ==
  \/ \E u \in Users : UserChanges(u)
  \/ \E i \in 1..MaxLoads, r \in 1..3 : RequestFulfils(i, r)
  \/ \E i \in 1..MaxLoads, r \in 1..3 : \E message \in ServerMessages :
       RequestRejects(i, r, message)
  \/ \E i \in 1..MaxLoads : DashboardLoadSettles(i)
  \/ \E i \in 1..MaxLoads : FacilitiesLoadSucceeds(i)
  \/ \E i \in 1..MaxLoads : FacilitiesLoadFails(i)
  \/ Unmount

(***************************************************************************)
(* ProtectedRoute, part_000 lines 12-57.  The auth context is not part of  *)
(* these sources: every value of loading, isAuthenticated, user and        *)
(* hasRole(allowedRoles) is one it may deliver.  user "" is null.          *)
(***************************************************************************)
AuthValues ==
  [loading : BOOLEAN, isAuthenticated : BOOLEAN, user : {"", "admin", "client", "user"},
   hasRole : BOOLEAN]

\* The allowedRoles prop: not passed, or a list of roles.
RoleProps == {"absent", "given"}

\* What the component returns, lines 30-56.
render(a, roles) ==
  IF a.loading \/ ~a.isAuthenticated THEN "placeholder"
  ELSE IF roles # "absent" /\ a.user # "" /\ ~a.hasRole THEN "no-access"
  ELSE "children"

\* The effect, lines 20-28: the destination of router.replace, or the last one.
redirect(a, roles, last) ==
  IF a.loading THEN last
  ELSE IF ~a.isAuthenticated THEN "/login"
  ELSE IF roles # "absent" /\ ~a.hasRole THEN "/dashboard"
  ELSE last

\* A ProtectedRoute mounts while the session is being restored.
InitGuardPage ==
  /\ auth = AuthLoading
  /\ allowedRoles \in RoleProps
  /\ rendered = render(auth, allowedRoles)
  /\ replaced = redirect(auth, allowedRoles, "")

InitGuard == InitGuardPage /\ NoApiCalls /\ NoWizardPage /\ NoView

\* The auth context delivers another value: the component renders again and its
\* effect runs.
AuthChanges(a) ==
  /\ rendered # "nothing" /\ a # auth
  /\ auth' = a
  /\ rendered' = render(a, allowedRoles)
  /\ replaced' = redirect(a, allowedRoles, replaced)
  /\ UNCHANGED <<apiVars, wizardVars, viewVars, allowedRoles>>

NextGuard == \E a \in AuthValues : AuthChanges(a)

(***************************************************************************)
(* Specifications.                                                         *)
(***************************************************************************)
\* The API client as the module is loaded, no wizard page mounted.
Init == InitApiClient /\ NoWizardPage /\ NoView /\ NoGuard

Spec == Init /\ [][Next]_vars

SpecHeaders == Init /\ [][NextHeaders]_vars

SpecWizard == InitWizard /\ [][NextWizard]_vars

SpecWizardEdit == InitWizardEdit /\ [][NextWizardEdit]_vars

SpecFacilities == InitFacilities /\ [][NextFacilities]_vars

SpecViews == InitViews /\ [][NextViews]_vars

SpecLeave == InitLeave /\ [][NextLeave]_vars

SpecGuard == InitGuard /\ [][NextGuard]_vars

(***************************************************************************)
(* The API client's properties.                                            *)
(***************************************************************************)
EmptyStore == [access |-> NoToken, refresh |-> NoToken]

\* What a caller should see of the last thing the wire gave for its request.
ResultOf(x) ==
  IF x = NetworkError THEN Outcome("error", "NetworkError", 0)
  ELSE IF IsOk(x) THEN SuccessOutcome(x)
  ELSE ErrorOutcome(x)

\* C1: a call whose refresh succeeded with a new access token has sent its request
\* exactly twice, the second time with the new token as bearer credential, and what
\* the caller gets is the outcome of the request sent again, never the first 401's.
C1_RetryDecidesOutcome ==
  \A c \in Calls :
    (calls[c].pc = "done" /\ calls[c].refreshGot = "ok") =>
      /\ Len(calls[c].reqs) = 2
      /\ calls[c].reqs[2].auth = Bearer(calls[c].refreshData.access)
      /\ Len(calls[c].got) = 2
      /\ calls[c].outcome = ResultOf(calls[c].got[2])

\* C2: at the step in which a call whose refresh failed (a response that is not
\* ok, or a throw) returns to its caller, both tokens are absent from storage,
\* the request was sent once only, and the Error thrown is the first 401's.
C2_FailedRefreshEndsCleared ==
  [][\A c \in Calls :
       (calls[c].pc # "done" /\ calls'[c].pc = "done"
          /\ calls'[c].refreshGot \in {"not-ok", "threw"}) =>
         /\ store' = EmptyStore
         /\ Len(calls'[c].reqs) = 1
         /\ calls'[c].outcome = ErrorOutcome(calls'[c].got[1])]_vars

\* C3: a call sends its request at most twice and at most one refresh request; on
\* the login and refresh paths it sends no refresh request and never sends again.
C3_AtMostOneRetry ==
  \A c \in Calls :
    /\ Len(calls[c].reqs) <= 2
    /\ calls[c].refreshes <= 1
    /\ Len(calls[c].reqs) = 2 => calls[c].refreshes = 1
    /\ calls[c].path \in {LoginPath, RefreshPath} =>
         (calls[c].refreshes = 0 /\ Len(calls[c].reqs) <= 1)

\* A call on the login path got a 401 with a refresh token stored and is done,
\* beside a call whose request sent again got a 401 too.
C3_Witness ==
  \E c, d \in Calls :
    /\ calls[c].pc = "done" /\ calls[c].path = LoginPath
    /\ calls[c].got = <<[status |-> 401, body |-> 0]>>
    /\ calls[d].pc = "done" /\ Len(calls[d].got) = 2
    /\ calls[d].got[2] # NetworkError /\ calls[d].got[2].status = 401
    /\ store.refresh # NoToken

\* C4: a call that ends its refresh by writing storage (storing its result or
\* clearing) used the refresh token that is stored at that moment: it never
\* replaces or clears a pair that another call's refresh stored meanwhile.
C4_NoStaleRefreshWrite ==
  [][\A c \in Calls :
       (calls[c].pc = "refresh" /\ calls'[c].pc # "refresh" /\ store' # store
          /\ store.refresh # NoToken)
         => calls[c].refreshToken = store.refresh]_vars

\* C5: every request sent, first or again, has no Authorization header when no
\* access token is stored as it is issued, whatever the caller passed, and
\* exactly the bearer of the stored token otherwise.
C5_AuthHeaderFollowsStore ==
  [][\A c \in Calls :
       Len(calls'[c].reqs) > Len(calls[c].reqs) =>
         calls'[c].reqs[Len(calls'[c].reqs)].auth =
           (IF store'.access = NoToken THEN Absent ELSE Bearer(store'.access))]_vars

\* C6 as claimed: whatever headers the caller passed, no request of a call with a
\* FormData body carries Content-Type: application/json.
C6_FormDataNeverJson ==
  \A c \in Calls :
    calls[c].body = "FormData" =>
      \A i \in 1..Len(calls[c].reqs) : calls[c].reqs[i].ct # JsonType

\* C6 as amended: apiFetch adds no Content-Type to a call with a FormData body:
\* every request of the call carries the caller's own Content-Type or, when the
\* caller passed none (uploadImageApi), no Content-Type at all.
C6_FormDataTypeIsCallers ==
  \A c \in Calls :
    calls[c].body = "FormData" =>
      \A i \in 1..Len(calls[c].reqs) : calls[c].reqs[i].ct = calls[c].options.ct

\* A FormData call without a caller Content-Type has sent its request twice.
C6_Witness ==
  \E c \in Calls :
    /\ calls[c].body = "FormData" /\ calls[c].options.ct = NoType
    /\ Len(calls[c].reqs) = 2

\* A call's refresh failed in this step: a response that is not ok, or a throw.
RefreshFailedStep(c) ==
  /\ calls[c].pc = "refresh"
  /\ calls'[c].refreshGot \in {"not-ok", "threw"}

\* C7 as claimed: when logoutApi completes and after any failed refresh neither
\* storage key holds a value, and no step removes one key and leaves the other.
C7_ClearedOnLogoutAndFailure ==
  [][/\ \A c \in Calls :
          (calls[c].path = LogoutPath /\ calls[c].pc # "done" /\ calls'[c].pc = "done")
            => store' = EmptyStore
     /\ \A c \in Calls : RefreshFailedStep(c) => store' = EmptyStore
     /\ (store.access # NoToken /\ store'.access = NoToken) => store' = EmptyStore
     /\ (store.refresh # NoToken /\ store'.refresh = NoToken) => store' = EmptyStore]_vars

\* C7 as amended: the two tokens are cleared together on refresh failure: after any
\* failed refresh neither storage key holds a value, and no step removes one key
\* and leaves the other (logoutApi itself clears nothing).
C7_ClearedTogether ==
  [][/\ \A c \in Calls : RefreshFailedStep(c) => store' = EmptyStore
     /\ (store.access # NoToken /\ store'.access = NoToken) => store' = EmptyStore
     /\ (store.refresh # NoToken /\ store'.refresh = NoToken) => store' = EmptyStore]_vars

\* A refresh has failed on a response that is not ok, and storage is empty.
C7_Witness ==
  \E c \in Calls :
    /\ calls[c].refreshGot = "not-ok" /\ calls[c].refreshToken # NoToken
    /\ store = EmptyStore

\* C8: the step that takes a successful refresh response stores its access_token,
\* stores its refresh_token when it has one and keeps the stored one otherwise, and
\* sends the request again with the new access token, all before anything else runs.
C8_RefreshPersistsThenRetries ==
  [][\A c \in Calls :
       (calls[c].pc = "refresh" /\ calls'[c].pc = "retry") =>
         /\ store'.access = calls'[c].refreshData.access
         /\ store'.refresh = (IF calls'[c].refreshData.refresh # NoToken
                                THEN calls'[c].refreshData.refresh
                                ELSE store.refresh)
         /\ Len(calls'[c].reqs) = 2
         /\ calls'[c].reqs[2].auth = Bearer(calls'[c].refreshData.access)]_vars

\* A refresh response without a refresh_token was taken: the new access token is
\* stored beside the old refresh token, and the request is out again.
C8_Witness ==
  \E c \in Calls :
    /\ calls[c].pc = "retry"
    /\ calls[c].refreshData.refresh = NoToken
    /\ store.access = calls[c].refreshData.access
    /\ store.refresh = calls[c].refreshToken /\ store.refresh # NoToken

(***************************************************************************)
(* The wizards' properties.                                                *)
(***************************************************************************)
HasFieldError(errors, key) == \E e \in errors.fields : e[1] = key

\* The fields of Step 1 that a submission in this state has wrong.
BadStep1Fields ==
  (IF trim(businessForm.companyName) = <<>> THEN {"companyName"} ELSE {})
  \cup (IF ~emailShape(businessForm.email) THEN {"email"} ELSE {})
  \cup (IF "adminPassword" \in FormFields(variant) /\ ~isEditing
             /\ Len(businessForm.adminPassword) < 6
          THEN {"adminPassword"} ELSE {})

\* Every field Step 1 inspects holds a value its check accepts.
GoodStep1Form ==
  /\ \A f \in FormFields(variant) \ {"adminPassword", "latitude", "longitude", "email"} :
       trim(businessForm[f]) # <<>>
  /\ emailShape(businessForm.email)
  /\ "adminPassword" \in FormFields(variant) /\ ~isEditing
       => Len(trim(businessForm.adminPassword)) >= 6
  /\ businessForm.latitude = <<>> /\ businessForm.longitude = <<>>

\* C9: in every wizard variant a Step 1 submission with a blank company name, an
\* email that is not of the shape local@domain.tld or (in create mode) an admin
\* password shorter than 6 characters leaves currentStep at 1, stores an error under
\* each such field's key and sends no request; a submission with every field valid
\* sends the create-client or update-client request.
C9_Step1GateBlocks ==
  [][HandleSubmitStep1 =>
       /\ BadStep1Fields # {} =>
            /\ currentStep' = 1
            /\ sent' = sent
            /\ \A key \in BadStep1Fields : HasFieldError(step1Errors', key)
       /\ GoodStep1Form =>
            /\ Len(sent') = Len(sent) + 1
            /\ sent'[Len(sent')].kind \in {"register-client", "update-client"}]_vars

OutOfRange(loc) == outside(loc.latitude, -90, 90) \/ outside(loc.longitude, -180, 180)

\* C10: in every wizard variant a Step 2 submission in which some row has a latitude
\* outside [-90,90] or a longitude outside [-180,180] sends no create-location
\* request and does not advance, and no create-location request ever sent carries
\* such a coordinate.
C10_OutOfRangeRejected ==
  [][/\ HandleSubmitStep2 /\ (\E i \in 1..Len(locations) : OutOfRange(locations[i]))
          => sent' = sent /\ currentStep' <= currentStep /\ route' = route
     /\ \A i \in 1..Len(sent') :
          sent'[i].kind = "create-location" => ~OutOfRange(sent'[i].row)]_vars

Rows(requests) == [i \in 1..Len(requests) |-> requests[i].row]

NewRequests == SubSeq(sent', Len(sent) + 1, Len(sent'))

NoId(locs) == SelectSeq(locs, LAMBDA loc : loc.id = "")

\* C11: on the edit-capable page no create-location request is sent for a row that
\* carries an identifier, and a Step 2 submission sends the rows without one in list
\* order: the first as it starts, each next one as the previous is answered, none
\* skipped, and it leaves for the dashboard only when all of them are sent.
C11_ExistingRowsSkipped ==
  [][variant = "setup-edit" =>
       /\ \A i \in 1..Len(NewRequests) :
            NewRequests[i].kind = "create-location" => NewRequests[i].row.id = ""
       /\ HandleSubmitStep2 /\ (isSubmitting' \/ route' # route)
            => Rows(NewRequests) \o inflight'.rows = NoId(locations)
       /\ inflight.op = "locations" /\ inflight'.op = "locations"
            => \/ inflight' = inflight /\ sent' = sent
               \/ /\ Len(NewRequests) = 1
                  /\ Rows(NewRequests) \o inflight'.rows = inflight.rows
       /\ inflight.op = "locations" /\ route' # route => inflight.rows = <<>>]_vars

\* A submission of a list that holds a row with an identifier and a row without one
\* has ended on the dashboard, and only the row without one was posted.
C11_Witness ==
  /\ variant = "setup-edit" /\ route = "/dashboard"
  /\ \E i, j \in 1..Len(locations) : locations[i].id # "" /\ locations[j].id = ""
  /\ Rows(SelectSeq(sent, LAMBDA r : r.kind = "create-location")) = NoId(locations)

\* C12: every create-location request carries, as client_id, the client identifier
\* that the most recent successful Step 1 submission produced: the identifier taken
\* from the create response, or the edited client's identifier in edit mode.
C12_LocationsCarryClientId ==
  [][/\ \A i \in 1..Len(NewRequests) :
          NewRequests[i].kind = "create-location"
            => producedId # "" /\ NewRequests[i].client_id = producedId
     /\ producedId' # producedId =>
          /\ inflight.op \in {"update", "register"}
          /\ inflight.op = "update" => producedId' = clientIdFromQuery
          /\ inflight.op = "register" =>
               \E result \in registered(registrations) :
                 producedId' = createdClientId(variant, result)]_vars

\* Step 1 has succeeded twice, with another identifier the second time, and the
\* location posted after that carries the second identifier.
C12_Witness ==
  /\ producedId \in {"user-2", "client-2", "cid-2", "id-2"}
  /\ sent # <<>>
  /\ sent[Len(sent)].kind = "create-location"
  /\ sent[Len(sent)].client_id = producedId

\* C13: a Step 2 submission made while no client identifier is set sends no
\* request, sets currentStep to 1, and leaves the explanatory message in the error
\* state that Step 1 displays (step1Errors.global).
C13_NoClientReturnsWithMessage ==
  [][HandleSubmitStep2 /\ clientId = "" =>
       /\ sent' = sent
       /\ currentStep' = 1
       /\ step1Errors'.global = noClientMessage(variant)]_vars

OnlyFieldCleared(old, new, key) ==
  /\ ~HasFieldError(new, key)
  /\ new.fields = {e \in old.fields : e[1] # key}
  /\ new.global = old.global

\* C15: handleBusinessChange, handleLocationChange and handleFacilityChange clear the
\* edited field's error only: every other field error of the step and the step's
\* global message are as before the edit.
C15_EditClearsOnlyThatField ==
  [][/\ \A field \in AllFormFields :
          (\E value \in BusinessInputs(field) : HandleBusinessChange(field, value))
            => OnlyFieldCleared(step1Errors, step1Errors', field)
     /\ \A index \in 0..(MaxRows - 1), field \in LocationFields :
          (\E value \in LocationInputs(field) :
             HandleLocationChange(index, field, value))
            => OnlyFieldCleared(step2Errors, step2Errors', <<index, field>>)
     /\ \A index \in 0..(MaxRows - 1), field \in FacilityFields :
          (\E value \in FacilityInputs(field) :
             HandleFacilityChange(index, field, value))
            => OnlyFieldCleared(step3Errors, step3Errors', <<index, field>>)]_vars

\* C16: the wizard starts at Step 1, and a navigation back (goToStep to the step
\* before) changes currentStep only: every business-form value, every location row
\* and every facility row is after it what it was before it.
C16_BackKeepsData ==
  /\ currentStep = 1
  /\ [][\A step \in 1..2 :
          GoToStep(step) =>
            /\ currentStep' = step
            /\ businessForm' = businessForm
            /\ locations' = locations
            /\ facilities' = facilities]_vars

\* The user is back on Step 1 after Step 1 succeeded, and the latitude typed into
\* the first row on Step 2 is still there.
C16_Witness ==
  /\ currentStep = 1 /\ producedId # ""
  /\ locations[1].latitude = Num(45)
  /\ businessForm = ValidForm(variant)

Fallbacks ==
  {"Failed to update business", "Failed to create business", "Failed to create client",
   "Failed to save locations", "Failed to create locations",
   "Failed to create facilities"}

\* The step's error state after its server call failed with the message.
FailureShown(errors, message) ==
  /\ errors.fields = {}
  /\ message # "" => errors.global = message
  /\ message = "" => errors.global \in Fallbacks

\* C17: when the server call of a step's submission fails, currentStep is as before,
\* the step's global error is the server's message, or a fixed fallback when the
\* error has no message, and the step's field errors are cleared.
C17_FailureKeepsStep ==
  [][\A message \in ServerMessages :
       /\ Step1Fails(message)
            => currentStep' = currentStep /\ FailureShown(step1Errors', message)
       /\ Step2LocationFails(message)
            => currentStep' = currentStep /\ FailureShown(step2Errors', message)
       /\ Step3FacilityFails(message)
            => currentStep' = currentStep /\ FailureShown(step3Errors', message)]_vars

\* The facility call of Step 3 has failed with the server's message after the
\* rows passed validation; the page is still on Step 3.
C17_Witness ==
  /\ currentStep = 3
  /\ step3Errors = [global |-> "Conflict", fields |-> {}]
  /\ validateStep3(facilities).fields = {}
  /\ sent[Len(sent)].kind = "create-facility"

\* A facility row with a name, a type and a location identifier.
Filled(fac) == fac.name # <<>> /\ fac.type # "" /\ fac.location_id # ""

FacilityRows == Rows(SelectSeq(sent, LAMBDA r : r.kind = "create-facility"))

\* C18: on the 3-step page a Step 3 submission sends create-facility requests only
\* when every facility row has a name, a type and a location identifier, and rows
\* that have them after trimming are sent; the rows go out one request each in
\* list order, the first as the submission starts and each next one as the previous
\* is answered, and the page leaves for "/dashboard" when the last one is answered.
C18_FacilitiesCreatedInOrder ==
  [][/\ \A i \in 1..Len(NewRequests) :
          NewRequests[i].kind = "create-facility"
            => variant = "onboarding" /\ Filled(NewRequests[i].row)
     /\ HandleSubmitStep3 /\ sent' # sent
          => /\ \A i \in 1..Len(facilities) : Filled(facilities[i])
             /\ Len(NewRequests) = 1
             /\ Rows(NewRequests) \o inflight'.rows = facilities
     /\ HandleSubmitStep3
          /\ facilities # <<>>
          /\ (\A i \in 1..Len(facilities) :
                Filled([facilities[i] EXCEPT !.name = trim(@)]))
          => sent' # sent
     /\ inflight.op = "facilities" /\ inflight'.op = "facilities"
          => \/ inflight' = inflight /\ sent' = sent
             \/ /\ Len(NewRequests) = 1
                /\ Rows(NewRequests) \o inflight'.rows = inflight.rows
     /\ inflight.op = "facilities" /\ route' # route
          => inflight.rows = <<>> /\ route' = "/dashboard"
     /\ inflight.op = "facilities" /\ inflight'.op # "facilities" /\ route' = route
          => step3Errors'.global # ""]_vars

\* Two filled rows were submitted, both requests were answered, and the page has
\* left for the dashboard.
C18_Witness ==
  /\ route = "/dashboard"
  /\ FacilityRows = <<FacilityA, FacilityB>>

Rejected(load) ==
  \E r \in 1..Len(load.requests) : load.requests[r].status = "rejected"

\* C19: when a run of a view's load has ended while the view is mounted and one of
\* its requests was rejected, the view's error is a non-empty message.
C19_FailuresAreShown ==
  \A i \in 1..Len(loads) :
    loads[i].isMounted /\ loads[i].pc = "done" /\ Rejected(loads[i]) => error # ""

\* The entries of a module list.
Listed(u) == {u.list[i] : i \in 1..Len(u.list)}

\* The static module set of a role.
StaticModules(role) ==
  IF role = "admin" THEN {"dashboard-overview", "analytics", "bookings", "gaming"}
  ELSE IF role = "client" THEN {"dashboard-overview", "bookings", "gaming"}
  ELSE IF role = "user" THEN {"dashboard-overview"}
  ELSE {}

\* C20 as stated: the visible modules are the user's module list when it is present
\* and not empty, else the static set of the user's role, and none without a user.
C20_ModulesAreExplicitList ==
  page = "dashboard" =>
    modules = IF ~user.present THEN {}
              ELSE IF user.listed /\ user.list # <<>> THEN Listed(user)
              ELSE StaticModules(user.role)

\* C20: the visible modules are the truthy entries of the user's module list when
\* the list is present and not empty (falsy entries are dropped, and a list of only
\* falsy entries shows nothing), else the static set of the user's role, and none
\* without a user.
C20_ModulesAreTruthyEntries ==
  page = "dashboard" =>
    modules = IF ~user.present THEN {}
              ELSE IF user.listed /\ user.list # <<>> THEN Listed(user) \ {""}
              ELSE StaticModules(user.role)

\* The dashboard shows a client whose module list has a falsy entry, after having
\* shown a user without one.
C20_Witness ==
  /\ page = "dashboard"
  /\ user.role = "client" /\ user.list = <<"", "analytics">>
  /\ modules = {"analytics"}
  /\ Len(loads) = 2

\* The React state of the wizard page.
pageState ==
  <<currentStep, isSubmitting, clientId, isEditing, isLoadingExisting, loadError,
    businessForm, step1Errors, locations, step2Errors, facilities, locationChoices,
    step3Errors>>

\* C21: once the wizard page is unmounted, the completion of a request it had in
\* flight (the prefill or a submission) updates none of its state.
C21_NoUpdateAfterUnmount ==
  [][route # "wizard" => pageState' = pageState]_vars

\* The first non-empty of user.id, client.id, client_id and id.
FirstIdentifier(result) ==
  IF result.user # "" THEN result.user
  ELSE IF result.client # "" THEN result.client
  ELSE IF result.client_id # "" THEN result.client_id
  ELSE result.id

\* C22: when the create request of Step 1 is answered, the client identifier
\* becomes the first non-empty of user.id, client.id, client_id and id; when all
\* four are missing the step and the identifier stay as they are and the step's
\* global error is 'Client ID missing from response'.
C22_FirstIdentifierWins ==
  [][\A result \in RegisterResults :
       Step1Succeeds(result) /\ inflight.op = "register"
         => IF FirstIdentifier(result) = ""
              THEN /\ currentStep' = currentStep
                   /\ clientId' = clientId
                   /\ step1Errors'.global = "Client ID missing from response"
              ELSE clientId' = FirstIdentifier(result) /\ currentStep' = 2]_vars

\* C23: the step that takes the answer to a refresh request either stores the new
\* access token and sends the original request again, or leaves both storage keys
\* without a value.
C23_RefreshStoresOrClears ==
  [][\A c \in Calls :
       calls[c].pc = "refresh" /\ calls'[c].pc # "refresh"
         => \/ /\ calls'[c].pc = "retry"
               /\ getAccessToken(store') = calls'[c].refreshData.access
               /\ getAccessToken(store') # NoToken
            \/ /\ getAccessToken(store') = NoToken
               /\ getRefreshToken(store') = NoToken]_vars

\* C24: on a wizard page that is past Step 1 a client identifier is set.
C24_LaterStepsHaveClient ==
  currentStep >= 2 => clientId # ""

\* C25: on a mounted wizard page isSubmitting is true only while a request of a
\* submission is in flight, so after a failed submission it is false again.
C25_SubmittingOnlyInFlight ==
  route = "wizard" /\ isSubmitting => inflight.op # "none"

\* C26: no create-location request is sent for a row whose create request has
\* already succeeded in the session.
C26_RowsCreatedOnce ==
  [][\A i \in 1..Len(NewRequests) :
       NewRequests[i].kind = "create-location" => NewRequests[i].row \notin succeeded]_vars

\* C27: once a Step 1 submission has succeeded and stored a client identifier, no
\* further register-client request is sent in the session.
C27_ClientRegisteredOnce ==
  [][producedId # "" =>
       \A i \in 1..Len(NewRequests) : NewRequests[i].kind # "register-client"]_vars

\* C28: when the prefill completes, every form field and the location rows that
\* hold something other than their initial value (what the user entered while the
\* prefill was in flight) are as before.
C28_PrefillKeepsUserInput ==
  [][\A client \in ExistingClients, clientLocations \in ExistingLocations :
       LoadExistingSucceeds(client, clientLocations)
         => /\ \A field \in FormFields(variant) :
                 businessForm[field] # EmptyForm[field]
                   => businessForm'[field] = businessForm[field]
            /\ locations # <<EmptyRow>> => locations' = locations]_vars

\* C29: ProtectedRoute shows its children only when the session is loaded, the
\* visitor is authenticated and, if allowedRoles are given, has one of them.
C29_ChildrenOnlyWhenAllowed ==
  rendered = "children"
    => /\ ~auth.loading /\ auth.isAuthenticated
       /\ allowedRoles = "absent" \/ auth.hasRole

\* C30: no step of a call to /auth/logout sends a refresh request, and each leaves
\* the stored tokens as they were or removes them.
C30_LogoutWritesNoTokens ==
  [][\A c \in Calls :
       calls'[c].path = LogoutPath /\ calls'[c] # calls[c]
         => /\ calls'[c].refreshes = 0
            /\ store' = store \/ store' = clearAuthTokens(store)]_vars

====
